---------------------------- MODULE Spec2Model ----------------------------
(***************************************************************************)
(* The two HTTP backends of the DevOps AI assistant:                       *)
(*   src/backend/main.py           (FastAPI application)                   *)
(*   src/backend/simple_server.py  (http.server application)               *)
(* Both keep an in-memory list rag_database of {id, error, solution}       *)
(* records, search it by case-insensitive substring containment, and fall  *)
(* back to the generation backend when no record matches.                  *)
(*                                                                         *)
(* Text is modelled as a sequence of one-character strings, so that        *)
(* str.lower(), the `in` operator, slicing and re.search are computed      *)
(* character by character as Python computes them.  Floats are modelled    *)
(* as hundredths (0.95 is 95).                                             *)
(***************************************************************************)
EXTENDS Integers, Sequences, FiniteSets, TLC

(***************************************************************************)
(* Text literals of the sources, the tests and the demo script.            *)
(***************************************************************************)
NpmTestFailed ==
    <<"n","p","m"," ","E","R","R","!"," ","T","e","s","t"," ","f","a","i","l","e","d"," ","w",
      "i","t","h"," ","e","x","i","t"," ","c","o","d","e"," ","1">>

NpmTestFailedCaps ==
    <<"N","P","M"," ","E","R","R","!"," ","T","E","S","T"," ","F","A","I","L","E","D"," ","w",
      "i","t","h"," ","E","x","i","t"," ","C","o","d","e"," ","1">>

NpmWarnDeprecated ==
    <<"n","p","m"," ","W","A","R","N"," ","d","e","p","r","e","c","a","t","e","d"," ","p","a",
      "c","k","a","g","e","@","1",".","0",".","0",":"," ","T","h","i","s"," ","p","a","c","k",
      "a","g","e"," ","i","s"," ","d","e","p","r","e","c","a","t","e","d">>

NpmErr ==
    <<"n","p","m"," ","E","R","R","!">>

DockerDenied ==
    <<"d","o","c","k","e","r",":"," ","E","r","r","o","r"," ","r","e","s","p","o","n","s","e",
      " ","f","r","o","m"," ","d","a","e","m","o","n",":"," ","p","u","l","l"," ","a","c","c",
      "e","s","s"," ","d","e","n","i","e","d">>

PermissionDenied ==
    <<"P","e","r","m","i","s","s","i","o","n"," ","d","e","n","i","e","d">>

JavaHeap ==
    <<"j","a","v","a",".","l","a","n","g",".","O","u","t","O","f","M","e","m","o","r","y","E",
      "r","r","o","r",":"," ","J","a","v","a"," ","h","e","a","p"," ","s","p","a","c","e">>

KwNpm ==
    <<"n","p","m">>

KwNode ==
    <<"n","o","d","e">>

KwDocker ==
    <<"d","o","c","k","e","r">>

KwPermission ==
    <<"p","e","r","m","i","s","s","i","o","n">>

GithubHost ==
    <<"g","i","t","h","u","b",".","c","o","m","/">>

DotGit ==
    <<".","g","i","t">>

Ellipsis ==
    <<".",".",".">>

UrlNotAUrl ==
    <<"n","o","t","-","a","-","u","r","l">>

UrlVscodeGit ==
    <<"h","t","t","p","s",":","/","/","g","i","t","h","u","b",".","c","o","m","/","m","i","c",
      "r","o","s","o","f","t","/","v","s","c","o","d","e",".","g","i","t">>

UrlNoScheme ==
    <<"g","i","t","h","u","b",".","c","o","m","/","o","w","n","e","r","/","r","e","p","o">>

UrlNoRepo ==
    <<"h","t","t","p","s",":","/","/","g","i","t","h","u","b",".","c","o","m","/","o","w","n",
      "e","r">>

UrlGitlab ==
    <<"h","t","t","p","s",":","/","/","g","i","t","l","a","b",".","c","o","m","/","o","w","n",
      "e","r","/","r","e","p","o">>

SimpleReason1 ==
    <<"B","u","i","l","d"," ","f","a","i","l","e","d",":"," ","n","p","m"," ","t","e","s","t",
      " ","f","a","i","l","e","d">>

SimpleLogs1 ==
    <<"E","r","r","o","r",":"," ","T","e","s","t"," ","s","u","i","t","e"," ","f","a","i","l",
      "e","d"," ","w","i","t","h"," ","3"," ","f","a","i","l","i","n","g"," ","t","e","s","t",
      "s","\n","\t","a","t"," ","t","e","s","t","/","a","p","p",".","t","e","s","t",".","j","s",
      ":","1","5",":","1","\n","n","p","m"," ","E","R","R","!"," ","T","e","s","t"," ","f","a",
      "i","l","e","d","."," ","S","e","e"," ","d","e","t","a","i","l","s"," ","a","b","o","v",
      "e",".">>

SimpleReason2 ==
    <<"D","e","p","l","o","y","m","e","n","t"," ","f","a","i","l","e","d",":"," ","D","o","c",
      "k","e","r"," ","b","u","i","l","d"," ","e","r","r","o","r">>

SimpleLogs2 ==
    <<"S","t","e","p"," ","5","/","1","0"," ",":"," ","R","U","N"," ","n","p","m"," ","i","n",
      "s","t","a","l","l","\n","-","-","-",">"," ","R","u","n","n","i","n","g"," ","i","n"," ",
      "a","b","c","1","2","3","\n","n","p","m"," ","E","R","R","!"," ","c","o","d","e"," ","E",
      "N","O","E","N","T","\n","n","p","m"," ","E","R","R","!"," ","s","y","s","c","a","l","l",
      " ","o","p","e","n">>

MainLogs1 ==
    <<"E","r","r","o","r",":"," ","T","e","s","t"," ","s","u","i","t","e"," ","f","a","i","l",
      "e","d"," ","w","i","t","h"," ","3"," ","f","a","i","l","i","n","g"," ","t","e","s","t",
      "s","\n","\t","a","t"," ","t","e","s","t","/","a","p","p",".","t","e","s","t",".","j","s",
      ":","1","5",":","1">>

MainLogs2 ==
    <<"S","t","e","p"," ","5","/","1","0"," ",":"," ","R","U","N"," ","n","p","m"," ","i","n",
      "s","t","a","l","l","\n","-","-","-",">"," ","R","u","n","n","i","n","g"," ","i","n"," ",
      "a","b","c","1","2","3","\n","n","p","m"," ","E","R","R","!"," ","c","o","d","e"," ","E",
      "N","O","E","N","T">>

\* simple_server.py, do_POST: the text the /upload-logs stub passes to the generation
UploadedLogFile ==
    <<"u","p","l","o","a","d","e","d"," ","l","o","g"," ","f","i","l","e">>

\* main.py, upload_logs: the accepted suffixes
DotLog ==
    <<".","l","o","g">>

DotTxt ==
    <<".","t","x","t">>

\* test_enhanced_functionality.py, test_log_file_upload: the uploaded file's name
TestLog ==
    <<"t","e","s","t",".","l","o","g">>

\* further file names
NotesTxt ==
    <<"n","o","t","e","s",".","t","x","t">>

AppExe ==
    <<"a","p","p",".","e","x","e">>

UpperChars ==
    <<"A","B","C","D","E","F","G","H","I","J","K","L","M","N","O","P","Q","R","S","T","U","V",
      "W","X","Y","Z">>

LowerChars ==
    <<"a","b","c","d","e","f","g","h","i","j","k","l","m","n","o","p","q","r","s","t","u","v",
      "w","x","y","z">>

(***************************************************************************)
(* Bounds of the model.                                                    *)
(***************************************************************************)
\* the store holds at most MaxRecords records (mark-solution is refused beyond)
MaxRecords == 2

\* the generation backend answers with a JSON array of at most this many items
MaxBackendItems == 11

(***************************************************************************)
(* JSON values of a request body field.                                    *)
(***************************************************************************)
JStr(s) == [type |-> "str", val |-> s]

\* a JSON number or null: a value that is not a Python str
JNum == [type |-> "int", val |-> <<>>]

\* the key is absent from the JSON object
Missing == [type |-> "missing", val |-> <<>>]

\* dict.get(key, ''): the value, or '' when the key is absent
Get(field) == IF field.type = "missing" THEN JStr(<<>>) ELSE field

IsStr(v) == v.type = "str"

(***************************************************************************)
(* Python string operations on character sequences.                        *)
(***************************************************************************)
LowerChar(c) ==
    IF \E i \in 1..Len(UpperChars) : UpperChars[i] = c
    THEN LowerChars[CHOOSE i \in 1..Len(UpperChars) : UpperChars[i] = c]
    ELSE c

\* str.lower()
Lower(s) == [i \in 1..Len(s) |-> LowerChar(s[i])]

\* q in e  (contiguous substring; the empty string is in every string)
Contains(q, e) ==
    \E i \in 0..(Len(e) - Len(q)) : SubSeq(e, i + 1, i + Len(q)) = q

\* s[:n]
Take(s, n) == SubSeq(s, 1, IF Len(s) < n THEN Len(s) ELSE n)

\* first index at or after `from` where sub occurs in s, 0 when there is none
FindFrom(s, sub, from) ==
    LET hits == {i \in from..(Len(s) - Len(sub) + 1) : SubSeq(s, i, i + Len(sub) - 1) = sub}
    IN  IF hits = {} THEN 0 ELSE CHOOSE i \in hits : \A j \in hits : i <= j

RECURSIVE Replace(_, _, _)
\* s.replace(old, new) for a non-empty old: every occurrence, left to right
Replace(s, old, new) ==
    LET i == FindFrom(s, old, 1)
    IN  IF i = 0 THEN s
        ELSE SubSeq(s, 1, i - 1) \o new \o Replace(SubSeq(s, i + Len(old), Len(s)), old, new)

(***************************************************************************)
(* get_github_failed_pipelines                                             *)
(***************************************************************************)
Pipeline(workflow_name, run_id, failure_reason, logs) ==
    [workflow_name |-> workflow_name, run_id |-> run_id,
     failure_reason |-> failure_reason, logs |-> logs]

\* simple_server.py: the mock list, whatever owner and repo are
get_github_failed_pipelines(owner, repo) ==
    << Pipeline("CI/CD Pipeline", "12345", SimpleReason1, SimpleLogs1),
       Pipeline("Deploy to Production", "12346", SimpleReason2, SimpleLogs2) >>

\* main.py: the mock list, whatever owner and repo are
main_get_github_failed_pipelines(owner, repo) ==
    << Pipeline("CI/CD Pipeline", "12345", SimpleReason1, MainLogs1),
       Pipeline("Deploy to Production", "12346", SimpleReason2, MainLogs2) >>

\* f"{pipeline['failure_reason']}\n{pipeline['logs']}"
PipelineErrorText(pipeline) == pipeline.failure_reason \o <<"\n">> \o pipeline.logs

\* the text analyze-github builds for the first mock pipeline of simple_server.py
SimpleErrorText1 == PipelineErrorText(get_github_failed_pipelines(<<>>, <<>>)[1])

(***************************************************************************)
(* Input domains.                                                          *)
(***************************************************************************)
\* error texts a client stores with mark-solution
ErrorTexts == {<<>>, NpmTestFailed, NpmErr, SimpleErrorText1}

\* log excerpts a client searches for
Texts ==
    ErrorTexts \cup {NpmTestFailedCaps, NpmWarnDeprecated, DockerDenied, PermissionDenied,
                    JavaHeap}

SolutionTexts == {<<>>, <<"f","i","x">>}

\* confidence of a mark-solution request, in hundredths
Confidences == {-50, 95, 150}

Urls == {<<>>, UrlNotAUrl, UrlVscodeGit, UrlNoScheme, UrlNoRepo, UrlGitlab}

\* a body field as a client can send it
TextFields == {Missing, JNum} \cup {JStr(t) : t \in Texts}

\* every text search_rag_database is called with
SearchedTexts ==
    Texts \cup {UploadedLogFile}
          \cup {PipelineErrorText(get_github_failed_pipelines(<<>>, <<>>)[k]) : k \in 1..2}
          \cup {PipelineErrorText(main_get_github_failed_pipelines(<<>>, <<>>)[k]) : k \in 1..2}

ErrorFields == {Missing, JNum} \cup {JStr(t) : t \in ErrorTexts}

SolutionFields == {Missing} \cup {JStr(s) : s \in SolutionTexts}

UrlFields == {Missing, JNum} \cup {JStr(u) : u \in Urls}

(***************************************************************************)
(* What one call of the generation backend does (main.py, requests.post).  *)
(***************************************************************************)
BackendOutcome(kind, n) == [kind |-> kind, n |-> n]

BackendOutcomes ==
    {BackendOutcome(k, 0) : k \in {"exception", "status", "nomatch", "badjson"}}
    \cup {BackendOutcome("array", n) : n \in {0, 1, MaxBackendItems}}

(***************************************************************************)
(* Requests, responses.                                                    *)
(***************************************************************************)
Request(endpoint, wellformed, text, solution, confidence) ==
    [endpoint |-> endpoint, wellformed |-> wellformed, text |-> text,
     solution |-> solution, confidence |-> confidence, filename |-> <<>>]

\* a multipart upload: the file's name and its bytes
UploadRequest(filename, content) ==
    [Request("upload-logs", TRUE, content, Missing, 0) EXCEPT !.filename = filename]

NoRequest == Request("none", TRUE, Missing, Missing, 0)

Response(status, source, solutions, results, entry_id) ==
    [status |-> status, source |-> source, solutions |-> solutions,
     results |-> results, entry_id |-> entry_id, total_solutions |-> -1,
     claude_api_valid |-> "none"]

NoResponse == Response(0, "none", <<>>, <<>>, -1)

\* send_error(400, ...) / HTTPException(status_code=400)
BadRequest == Response(400, "none", <<>>, <<>>, -1)

SolutionsResponse(solutions, source) == Response(200, source, solutions, <<>>, -1)

ResultsResponse(results) == Response(200, "none", <<>>, results, -1)

EntryResponse(entry_id) == Response(200, "none", <<>>, <<>>, entry_id)

\* {"message": "DevOps AI Assistant API"}
MessageResponse == Response(200, "none", <<>>, <<>>, -1)

\* {"status": "healthy", "claude_api_valid": claude_valid}
HealthResponse(claude_valid) ==
    [MessageResponse EXCEPT !.claude_api_valid = IF claude_valid THEN "true" ELSE "false"]

\* {"total_solutions": len(rag_database), "database_entries": len(rag_database)}
StatsResponse(total) == [MessageResponse EXCEPT !.total_solutions = total]

\* send_error(404)
NotFound == Response(404, "none", <<>>, <<>>, -1)

\* an exception no handler catches: FastAPI answers 500
ServerError == Response(500, "none", <<>>, <<>>, -1)

(***************************************************************************)
(* search_rag_database                                                     *)
(***************************************************************************)
Min(S) == CHOOSE i \in S : \A j \in S : i <= j

NoSolution == [id |-> -1, description |-> <<>>, confidence |-> 0, solution_text |-> Missing]

SearchResult(kind, solution) == [kind |-> kind, solution |-> solution]

\* the Solution built from a stored item
RagSolution(item) ==
    [id |-> item.id, description |-> Take(item.error.val, 100) \o Ellipsis,
     confidence |-> 95, solution_text |-> item.solution]

\* a test that also accepts a query that contains the stored text
MatchesEitherWay(query, error) ==
    Contains(Lower(query), Lower(error)) \/ Contains(Lower(error), Lower(query))

\* the test of the loop: query.lower() in item["error"].lower()
Matches(query, error) == Contains(Lower(query), Lower(error))

\* Matches on every text that is searched for and every text that is stored,
\* evaluated once
MatchTable == [query \in SearchedTexts |-> [error \in ErrorTexts |-> Matches(query, error)]]

\* a search that answers with the newest matching record
search_newest_match(db, query) ==
    LET hits == {i \in 1..Len(db) :
                    IsStr(query) /\ IsStr(db[i].error) /\ MatchTable[query.val][db[i].error.val]}
    IN  IF hits = {} THEN SearchResult("none", NoSolution)
        ELSE SearchResult("found", RagSolution(db[CHOOSE i \in hits : \A j \in hits : j <= i]))

\* simple_server.py: the first item in list order whose error contains the
\* query; .lower() raises AttributeError on a value that is not a str, which
\* ends the loop at the first item reached
search_rag_database(db, query) ==
    LET stop == {i \in 1..Len(db) :
                    \/ ~IsStr(query)
                    \/ ~IsStr(db[i].error)
                    \/ MatchTable[query.val][db[i].error.val]}
    IN  IF stop = {} THEN SearchResult("none", NoSolution)
        ELSE IF ~IsStr(query) \/ ~IsStr(db[Min(stop)].error)
             THEN SearchResult("raise", NoSolution)
             ELSE SearchResult("found", RagSolution(db[Min(stop)]))

\* main.py: the same loop; the request models make every value a str
main_search_rag_database(db, query) ==
    LET hits == {i \in 1..Len(db) : MatchTable[query][db[i].error.val]}
    IN  IF hits = {} THEN SearchResult("none", NoSolution)
        ELSE SearchResult("found", RagSolution(db[Min(hits)]))

(***************************************************************************)
(* get_claude_recommendations                                              *)
(***************************************************************************)
MockSolution(description, confidence, solution_text) ==
    [description |-> description, confidence |-> confidence, solution_text |-> solution_text]

mock_solutions ==
    << MockSolution("Configuration Error: Missing environment variables", 90,
           "Check your environment variables:\n1. Verify all required ENV vars are set\n2. Check .env file syntax\n3. Restart the application after changes"),
       MockSolution("Dependency Conflict: Package version mismatch", 85,
           "Resolve dependency conflicts:\n1. Update package.json/requirements.txt\n2. Clear cache (npm ci / pip install --force-reinstall)\n3. Check for breaking changes in dependencies"),
       MockSolution("Build Error: Compilation failure", 80,
           "Fix build issues:\n1. Check for syntax errors in code\n2. Verify all imports are correct\n3. Ensure build tools are properly configured"),
       MockSolution("Network Error: Connection timeout", 75,
           "Network connectivity issues:\n1. Check firewall settings\n2. Verify network configuration\n3. Test connectivity to external services"),
       MockSolution("Permission Error: Access denied", 70,
           "Permission problems:\n1. Check file/directory permissions\n2. Verify user has required access\n3. Check SELinux/AppArmor policies if applicable") >>

\* simple_server.py: three mock solutions chosen by keyword (Python indexes
\* from 0, mock_solutions[1] is the second entry)
get_claude_recommendations(error_text) ==
    LET low == Lower(error_text)
    IN  IF Contains(KwNpm, low) \/ Contains(KwNode, low)
        THEN <<mock_solutions[2], mock_solutions[3], mock_solutions[1]>>
        ELSE IF Contains(KwDocker, low)
        THEN <<mock_solutions[3], mock_solutions[5], mock_solutions[4]>>
        ELSE IF Contains(KwPermission, low)
        THEN <<mock_solutions[5], mock_solutions[1], mock_solutions[4]>>
        ELSE SubSeq(mock_solutions, 1, 3)

\* get_claude_recommendations of simple_server.py on every searched text,
\* evaluated once
MockTable == [error_text \in SearchedTexts |-> get_claude_recommendations(error_text)]

\* main.py: solutions_data[:10]
SolutionLimit == 10

GeneratedSolution(i) ==
    [id |-> i, description |-> "generated", confidence |-> 50, solution_text |-> "generated"]

FallbackSolutions ==
    << [id |-> 0, description |-> "Common deployment issue", confidence |-> 80,
        solution_text |-> "Check your deployment configuration and ensure all environment variables are set correctly."] >>

\* a generation whose failures leave the caller without any solution
recommendations_without_fallback(error_text, outcome) ==
    IF outcome.kind = "array"
    THEN [i \in 1..(IF outcome.n < SolutionLimit THEN outcome.n ELSE SolutionLimit)
             |-> GeneratedSolution(i - 1)]
    ELSE <<>>

\* main.py: the parsed array cut to ten solutions when the backend answers 200
\* with a JSON array; the one built-in solution when the call raises, the
\* status is not 200, no [...] is found or parsing raises
main_get_claude_recommendations(error_text, outcome) ==
    IF outcome.kind = "array"
    THEN [i \in 1..(IF outcome.n < SolutionLimit THEN outcome.n ELSE SolutionLimit)
             |-> GeneratedSolution(i - 1)]
    ELSE FallbackSolutions

(***************************************************************************)
(* extract_github_repo_info                                                *)
(***************************************************************************)
Slash == "/"

\* length of the longest run of characters other than "/" starting at s[p]
RunLen(s, p) ==
    LET stops == {i \in p..Len(s) : s[i] = Slash}
    IN  IF stops = {} THEN Len(s) - p + 1 ELSE Min(stops) - p

\* a pattern that stops after the owner: r'github\.com/([^/]+)'
extract_owner_only(github_url) ==
    LET n == Len(GithubHost)
        ok(p) == /\ SubSeq(github_url, p, p + n - 1) = GithubHost
                 /\ RunLen(github_url, p + n) >= 1
        starts == {p \in 1..(Len(github_url) - n + 1) : ok(p)}
    IN  IF starts = {}
        THEN [ok |-> FALSE, owner |-> <<>>, repo |-> <<>>]
        ELSE [ok |-> TRUE,
              owner |-> SubSeq(github_url, Min(starts) + n,
                               Min(starts) + n + RunLen(github_url, Min(starts) + n) - 1),
              repo |-> <<>>]

\* re.search(r'github\.com/([^/]+)/([^/]+)', url): the leftmost position where
\* the literal is followed by a non-empty owner, a slash and a non-empty repo;
\* ValueError when there is none.  repo loses every ".git".
extract_github_repo_info(github_url) ==
    LET n == Len(GithubHost)
        ownerAt(p) == p + n
        repoAt(p) == ownerAt(p) + RunLen(github_url, ownerAt(p)) + 1
        ok(p) == /\ SubSeq(github_url, p, p + n - 1) = GithubHost
                 /\ RunLen(github_url, ownerAt(p)) >= 1
                 /\ repoAt(p) <= Len(github_url)
                 /\ RunLen(github_url, repoAt(p)) >= 1
        starts == {p \in 1..(Len(github_url) - n + 1) : ok(p)}
    IN  IF starts = {}
        THEN [ok |-> FALSE, owner |-> <<>>, repo |-> <<>>]
        ELSE LET p == Min(starts)
             IN  [ok |-> TRUE,
                  owner |-> SubSeq(github_url, ownerAt(p),
                                   ownerAt(p) + RunLen(github_url, ownerAt(p)) - 1),
                  repo |-> Replace(SubSeq(github_url, repoAt(p),
                                          repoAt(p) + RunLen(github_url, repoAt(p)) - 1),
                                   DotGit, <<>>)]

\* extract_github_repo_info on every url, evaluated once
RepoInfoTable == [github_url \in Urls |-> extract_github_repo_info(github_url)]

(***************************************************************************)
(* State.                                                                  *)
(***************************************************************************)
VARIABLES
    server,            \* which backend is running: "main" or "simple"
    rag_database,      \* the module-level list of {id, error, solution} items
    solution_counter,  \* simple_server.py's module-level counter
    request,           \* the request being answered
    response,          \* the answer to it
    calls,             \* the collaborator calls its handler made, in order
    pc,                \* where the handler in progress stands: "idle" when none is
    waited,            \* seconds the last call of the backend has lasted
    peer               \* main.py answering the same requests beside simple_server.py

vars ==
    <<server, rag_database, solution_counter, request, response, calls, pc, waited, peer>>

Item(id, error, solution) == [id |-> id, error |-> error, solution |-> solution]

Result(pipeline, solutions, source) ==
    [pipeline |-> pipeline, solutions |-> solutions, source |-> source]

Outcome(raised, results, made) == [raised |-> raised, results |-> results, calls |-> made]

\* main.py after start: an empty store, no answer given, no request rejected
NoPeer == [rag_database |-> <<>>, response |-> NoResponse, rejected |-> FALSE]

Init ==
    /\ server \in {"main", "simple"}
    /\ rag_database = <<>>
    /\ solution_counter = 0
    /\ request = NoRequest
    /\ response = NoResponse
    /\ calls = <<>>
    /\ pc = "idle"
    /\ waited = 0
    /\ peer = NoPeer

\* a server that hands every request to a thread of its own
ThreadingAccepts(p) == TRUE

\* socketserver.TCPServer.serve_forever and the uvicorn event loop run one handler
\* at a time: the next request is taken only when the handler in progress, which
\* never awaits in the middle of its work, has returned
ServerAccepts(p) == p = "idle"

(***************************************************************************)
(* simple_server.py, DevOpsAIHandler.do_POST                               *)
(***************************************************************************)
\* the body of the /search-logs branch after json.loads: search, then the mock
\* generation when nothing is found; any exception becomes send_error(400)
SimpleResolve(db, log_content) ==
    LET rag_solution == search_rag_database(db, log_content)
    IN  IF rag_solution.kind = "raise"
        THEN [response |-> BadRequest, calls |-> <<"search">>]
        ELSE IF rag_solution.kind = "found"
        THEN [response |-> SolutionsResponse(<<rag_solution.solution>>, "rag"),
              calls |-> <<"search">>]
        ELSE IF ~IsStr(log_content)
        THEN [response |-> BadRequest, calls |-> <<"search", "generate">>]
        ELSE [response |-> SolutionsResponse(MockTable[log_content.val], "claude"),
              calls |-> <<"search", "generate">>]

SimpleSearchLogs(wellformed, field) ==
    /\ server = "simple"
    /\ ServerAccepts(pc)
    /\ request' = Request("search-logs", wellformed, field, Missing, 0)
    /\ LET done == IF wellformed
                   THEN SimpleResolve(rag_database, Get(field))
                   ELSE [response |-> BadRequest, calls |-> <<>>]
       IN  /\ response' = done.response
           /\ calls' = done.calls
    /\ UNCHANGED <<peer, server, rag_database, solution_counter, pc, waited>>

RECURSIVE SimpleResolveFrom(_, _, _)
\* the for loop of the /analyze-github branch over pipelines[k], pipelines[k+1], ...
\* an exception of the search leaves the loop and the try block
SimpleResolveFrom(db, pipelines, k) ==
    IF k > Len(pipelines) THEN Outcome(FALSE, <<>>, <<>>)
    ELSE LET error_text == PipelineErrorText(pipelines[k])
             rag_solution == search_rag_database(db, JStr(error_text))
         IN  IF rag_solution.kind = "raise" THEN Outcome(TRUE, <<>>, <<"search">>)
             ELSE LET rest == SimpleResolveFrom(db, pipelines, k + 1)
                      found == rag_solution.kind = "found"
                      item == IF found
                              THEN Result(pipelines[k], <<rag_solution.solution>>, "rag")
                              ELSE Result(pipelines[k], MockTable[error_text], "claude")
                      made == IF found THEN <<"search">> ELSE <<"search", "generate">>
                  IN  Outcome(rest.raised, <<item>> \o rest.results, made \o rest.calls)

SimpleAnalyzeGithub(wellformed, field) ==
    /\ server = "simple"
    /\ ServerAccepts(pc)
    /\ request' = Request("analyze-github", wellformed, field, Missing, 0)
    /\ LET github_url == Get(field)
           info == IF IsStr(github_url) THEN RepoInfoTable[github_url.val]
                   ELSE [ok |-> FALSE, owner |-> <<>>, repo |-> <<>>]
           loop == SimpleResolveFrom(rag_database,
                                     get_github_failed_pipelines(info.owner, info.repo), 1)
       IN  IF ~wellformed \/ ~IsStr(github_url) \/ ~info.ok
           THEN /\ response' = BadRequest
                /\ calls' = <<>>
           ELSE /\ response' = IF loop.raised THEN BadRequest
                               ELSE ResultsResponse(loop.results)
                /\ calls' = <<"pipelines">> \o loop.calls
    /\ UNCHANGED <<peer, server, rag_database, solution_counter, pc, waited>>

\* a counter that is never advanced
NextCounterStuck(counter) == counter

\* solution_counter += 1
NextCounter(counter) == counter + 1

SimpleMarkSolution(wellformed, error_field, solution_field, confidence) ==
    /\ server = "simple"
    /\ ServerAccepts(pc)
    /\ request' = Request("mark-solution", wellformed, error_field, solution_field, confidence)
    /\ calls' = <<>>
    /\ IF ~wellformed
       THEN /\ response' = BadRequest
            /\ UNCHANGED <<rag_database, solution_counter>>
       ELSE /\ Len(rag_database) < MaxRecords
            /\ LET new_entry == Item(solution_counter, Get(error_field), Get(solution_field))
               IN  /\ rag_database' = Append(rag_database, new_entry)
                   /\ solution_counter' = NextCounter(solution_counter)
                   /\ response' = EntryResponse(new_entry.id)
    /\ UNCHANGED <<peer, server, pc, waited>>

\* the /upload-logs branch: the body is not parsed and the store is not searched
SimpleUploadLogs(filename, content) ==
    /\ server = "simple"
    /\ ServerAccepts(pc)
    /\ request' = UploadRequest(filename, content)
    /\ response' = SolutionsResponse(MockTable[UploadedLogFile], "claude")
    /\ calls' = <<"generate">>
    /\ UNCHANGED <<peer, server, rag_database, solution_counter, pc, waited>>

(***************************************************************************)
(* simple_server.py, DevOpsAIHandler.do_GET                                *)
(***************************************************************************)
RootPath == <<"/">>

HealthPath == <<"/", "h", "e", "a", "l", "t", "h">>

RagStatsPath == <<"/", "r", "a", "g", "-", "s", "t", "a", "t", "s">>

\* a path no branch names
DocsPath == <<"/", "d", "o", "c", "s">>

Paths == {RootPath, HealthPath, RagStatsPath, DocsPath}

EndpointOf(path) ==
    IF path = RootPath THEN "root"
    ELSE IF path = HealthPath THEN "health"
    ELSE IF path = RagStatsPath THEN "rag-stats"
    ELSE "unknown"

\* simple_server.py: validate_claude_api_key is a stub that returns True
SimpleGet(path) ==
    /\ server = "simple"
    /\ ServerAccepts(pc)
    /\ request' = Request(EndpointOf(path), TRUE, Missing, Missing, 0)
    /\ response' = IF path = RootPath THEN MessageResponse
                   ELSE IF path = HealthPath THEN HealthResponse(TRUE)
                   ELSE IF path = RagStatsPath THEN StatsResponse(Len(rag_database))
                   ELSE NotFound
    /\ calls' = IF path = HealthPath THEN <<"validate">> ELSE <<>>
    /\ UNCHANGED <<peer, server, rag_database, solution_counter, pc, waited>>

(***************************************************************************)
(* main.py: the handlers run on requests FastAPI has already validated     *)
(* against LogSearchRequest, GitHubUrlRequest and MarkSolutionRequest, so  *)
(* every field is present and a str.                                       *)
(***************************************************************************)
MainResolve(db, log_content, outcome) ==
    LET rag_solution == main_search_rag_database(db, log_content)
    IN  IF rag_solution.kind = "found"
        THEN [response |-> SolutionsResponse(<<rag_solution.solution>>, "rag"),
              calls |-> <<"search">>]
        ELSE [response |-> SolutionsResponse(
                               main_get_claude_recommendations(log_content, outcome), "claude"),
              calls |-> <<"search", "generate">>]

\* a search that keeps what the generation answered as a record of the store
MainSearchLogsLearning(log_content, outcome) ==
    /\ server = "main"
    /\ ServerAccepts(pc)
    /\ request' = Request("search-logs", TRUE, JStr(log_content), Missing, 0)
    /\ LET done == MainResolve(rag_database, log_content, outcome)
       IN  /\ response' = done.response
           /\ calls' = done.calls
           /\ rag_database' =
                  IF /\ done.response.source = "claude"
                     /\ log_content \in ErrorTexts
                     /\ Len(rag_database) < MaxRecords
                  THEN Append(rag_database,
                              Item(Len(rag_database), JStr(log_content), JStr(<<>>)))
                  ELSE rag_database
    /\ UNCHANGED <<peer, server, solution_counter, pc, waited>>

MainSearchLogs(log_content, outcome) ==
    /\ server = "main"
    /\ ServerAccepts(pc)
    /\ request' = Request("search-logs", TRUE, JStr(log_content), Missing, 0)
    /\ LET done == MainResolve(rag_database, log_content, outcome)
       IN  /\ response' = done.response
           /\ calls' = done.calls
    /\ UNCHANGED <<peer, server, rag_database, solution_counter, pc, waited>>

RECURSIVE MainResolveFrom(_, _, _, _)
\* the for loop of analyze_github; outcomes[k] is what the backend does when
\* it is called for pipelines[k]
MainResolveFrom(db, pipelines, outcomes, k) ==
    IF k > Len(pipelines) THEN Outcome(FALSE, <<>>, <<>>)
    ELSE LET error_text == PipelineErrorText(pipelines[k])
             rag_solution == main_search_rag_database(db, error_text)
             rest == MainResolveFrom(db, pipelines, outcomes, k + 1)
             found == rag_solution.kind = "found"
             item == IF found
                     THEN Result(pipelines[k], <<rag_solution.solution>>, "rag")
                     ELSE Result(pipelines[k],
                                 main_get_claude_recommendations(error_text, outcomes[k]),
                                 "claude")
             made == IF found THEN <<"search">> ELSE <<"search", "generate">>
         IN  Outcome(FALSE, <<item>> \o rest.results, made \o rest.calls)

MainAnalyzeGithub(github_url, outcomes) ==
    /\ server = "main"
    /\ ServerAccepts(pc)
    /\ request' = Request("analyze-github", TRUE, JStr(github_url), Missing, 0)
    /\ LET info == RepoInfoTable[github_url]
           loop == MainResolveFrom(rag_database,
                                   main_get_github_failed_pipelines(info.owner, info.repo),
                                   outcomes, 1)
       IN  IF ~info.ok
           THEN /\ response' = BadRequest
                /\ calls' = <<>>
           ELSE /\ response' = ResultsResponse(loop.results)
                /\ calls' = <<"pipelines">> \o loop.calls
    /\ UNCHANGED <<peer, server, rag_database, solution_counter, pc, waited>>

\* an id that does not depend on what is stored
MainNewIdFixed(db) == 0

\* "id": len(rag_database)
MainNewId(db) == Len(db)

\* an ingest that rewrites the stored record of the same error text
MainMarkSolutionUpsert(error_text, solution_text, confidence) ==
    /\ server = "main"
    /\ ServerAccepts(pc)
    /\ Len(rag_database) < MaxRecords
    /\ request' = Request("mark-solution", TRUE, JStr(error_text), JStr(solution_text),
                          confidence)
    /\ calls' = <<>>
    /\ LET same == {i \in 1..Len(rag_database) : rag_database[i].error = JStr(error_text)}
           new_entry == Item(MainNewId(rag_database), JStr(error_text), JStr(solution_text))
       IN  IF same = {}
           THEN /\ rag_database' = Append(rag_database, new_entry)
                /\ response' = EntryResponse(new_entry.id)
           ELSE /\ rag_database' = [rag_database EXCEPT
                                       ![Min(same)].solution = JStr(solution_text)]
                /\ response' = EntryResponse(rag_database[Min(same)].id)
    /\ UNCHANGED <<peer, server, solution_counter, pc, waited>>

MainMarkSolution(error_text, solution_text, confidence) ==
    /\ server = "main"
    /\ ServerAccepts(pc)
    /\ Len(rag_database) < MaxRecords
    /\ request' = Request("mark-solution", TRUE, JStr(error_text), JStr(solution_text),
                          confidence)
    /\ calls' = <<>>
    /\ LET new_entry == Item(MainNewId(rag_database), JStr(error_text), JStr(solution_text))
       IN  /\ rag_database' = Append(rag_database, new_entry)
           /\ response' = EntryResponse(new_entry.id)
    /\ UNCHANGED <<peer, server, solution_counter, pc, waited>>

\* str.endswith(suffix)
EndsWith(s, suffix) ==
    Len(s) >= Len(suffix) /\ SubSeq(s, Len(s) - Len(suffix) + 1, Len(s)) = suffix

\* file bytes that are not UTF-8: content.decode('utf-8') raises UnicodeDecodeError
InvalidUtf8 == [type |-> "bytes", val |-> <<>>]

MainUploadLogs(filename, content, outcome) ==
    /\ server = "main"
    /\ ServerAccepts(pc)
    /\ request' = UploadRequest(filename, content)
    /\ LET done == IF ~(EndsWith(filename, DotLog) \/ EndsWith(filename, DotTxt))
                   THEN [response |-> BadRequest, calls |-> <<>>]
                   ELSE IF ~IsStr(content)
                   THEN [response |-> ServerError, calls |-> <<>>]
                   ELSE MainResolve(rag_database, content.val, outcome)
       IN  /\ response' = done.response
           /\ calls' = done.calls
    /\ UNCHANGED <<peer, server, rag_database, solution_counter, pc, waited>>

MainRoot ==
    /\ server = "main"
    /\ ServerAccepts(pc)
    /\ request' = Request("root", TRUE, Missing, Missing, 0)
    /\ response' = MessageResponse
    /\ calls' = <<>>
    /\ UNCHANGED <<peer, server, rag_database, solution_counter, pc, waited>>

\* claude_valid is what validate_claude_api_key returns: whether the backend
\* answered 200 to the probe; an exception of the probe gives False
MainHealthCheck(claude_valid) ==
    /\ server = "main"
    /\ ServerAccepts(pc)
    /\ request' = Request("health", TRUE, Missing, Missing, 0)
    /\ response' = HealthResponse(claude_valid)
    /\ calls' = <<"validate">>
    /\ UNCHANGED <<peer, server, rag_database, solution_counter, pc, waited>>

MainRagStats ==
    /\ server = "main"
    /\ ServerAccepts(pc)
    /\ request' = Request("rag-stats", TRUE, Missing, Missing, 0)
    /\ response' = StatsResponse(Len(rag_database))
    /\ calls' = <<>>
    /\ UNCHANGED <<peer, server, rag_database, solution_counter, pc, waited>>

(***************************************************************************)
(* Specification.                                                          *)
(***************************************************************************)
\* the urls whose analysis reaches the generation backend
AcceptedUrls == {u \in Urls : RepoInfoTable[u].ok}

Filenames == {TestLog, NotesTxt, AppExe, DotLog, <<>>}

AcceptedFilenames == {f \in Filenames : EndsWith(f, DotLog) \/ EndsWith(f, DotTxt)}

\* one backend outcome for each answer the generation can return: the four
\* kinds of failure all return the built-in solution
DistinctOutcomes == {o \in BackendOutcomes : o.kind \in {"exception", "array"}}

\* what an uploaded file holds
UploadContents == {JStr(NpmTestFailed), JStr(JavaHeap), InvalidUtf8}

Next ==
    \/ \E f \in TextFields : SimpleSearchLogs(TRUE, f)
    \/ SimpleSearchLogs(FALSE, Missing)
    \/ \E f \in UrlFields : SimpleAnalyzeGithub(TRUE, f)
    \/ SimpleAnalyzeGithub(FALSE, Missing)
    \/ \E e \in ErrorFields, s \in SolutionFields, c \in Confidences :
           SimpleMarkSolution(TRUE, e, s, c)
    \/ SimpleMarkSolution(FALSE, Missing, Missing, 0)
    \/ \E t \in Texts, o \in BackendOutcomes : MainSearchLogs(t, o)
    \/ \E u \in AcceptedUrls, o1 \in DistinctOutcomes, o2 \in DistinctOutcomes :
           MainAnalyzeGithub(u, <<o1, o2>>)
    \/ \E u \in Urls \ AcceptedUrls : MainAnalyzeGithub(u, <<>>)
    \/ \E e \in ErrorTexts, s \in SolutionTexts, c \in Confidences : MainMarkSolution(e, s, c)
    \/ \E f \in Filenames, c \in UploadContents : SimpleUploadLogs(f, c)
    \/ \E p \in Paths : SimpleGet(p)
    \/ \E f \in AcceptedFilenames, c \in UploadContents, o \in DistinctOutcomes :
           MainUploadLogs(f, c, o)
    \/ \E f \in Filenames \ AcceptedFilenames, c \in UploadContents :
           MainUploadLogs(f, c, BackendOutcome("exception", 0))
    \/ MainRoot
    \/ \E v \in BOOLEAN : MainHealthCheck(v)
    \/ MainRagStats

Spec == Init /\ [][Next]_vars

(***************************************************************************)
(* main.py, search_logs step by step: the handler searches the store,      *)
(* then blocks in requests.post(..., timeout=30) until the backend         *)
(* answers, the connection fails or the timeout expires.  The handler      *)
(* does not await while it waits, so the event loop serves nothing else.   *)
(***************************************************************************)
\* requests.post(CLAUDE_API_URL, ..., timeout=30)
Timeout == 30

\* a call that is given no timeout
NeverTimedOut(seconds) == FALSE

\* requests raises Timeout when the backend has been silent for the timeout
TimedOut(seconds) == seconds >= Timeout

MainSearchLogsBegin(log_content) ==
    /\ server = "main"
    /\ ServerAccepts(pc)
    /\ request' = Request("search-logs", TRUE, JStr(log_content), Missing, 0)
    /\ LET rag_solution == main_search_rag_database(rag_database, log_content)
       IN  IF rag_solution.kind = "found"
           THEN /\ response' = SolutionsResponse(<<rag_solution.solution>>, "rag")
                /\ calls' = <<"search">>
                /\ pc' = "idle"
           ELSE /\ response' = NoResponse
                /\ calls' = <<"search", "generate">>
                /\ pc' = "waiting"
    /\ waited' = 0
    /\ UNCHANGED <<peer, server, rag_database, solution_counter>>

\* one more second without an answer
Tick ==
    /\ pc = "waiting"
    /\ waited < Timeout
    /\ waited' = waited + 1
    /\ UNCHANGED <<peer, server, rag_database, solution_counter, request, response, calls, pc>>

\* the backend answers, or the connection fails, before the timeout
BackendReplies(outcome) ==
    /\ pc = "waiting"
    /\ ~TimedOut(waited)
    /\ response' = SolutionsResponse(
                       main_get_claude_recommendations(request.text.val, outcome), "claude")
    /\ pc' = "idle"
    /\ UNCHANGED <<peer, server, rag_database, solution_counter, request, calls, waited>>

\* the timeout expires: requests raises, the except clause prints, and the
\* built-in solution is returned
BackendTimesOut ==
    /\ pc = "waiting"
    /\ TimedOut(waited)
    /\ response' = SolutionsResponse(
                       main_get_claude_recommendations(request.text.val,
                                                       BackendOutcome("exception", 0)),
                       "claude")
    /\ pc' = "idle"
    /\ UNCHANGED <<peer, server, rag_database, solution_counter, request, calls, waited>>

LiveInit == Init /\ server = "main"

LiveNext ==
    \/ \E t \in Texts : MainSearchLogsBegin(t)
    \/ Tick
    \/ \E o \in BackendOutcomes : BackendReplies(o)
    \/ BackendTimesOut
    \/ \E e \in ErrorTexts : MainMarkSolution(e, <<"f","i","x">>, 95)

\* time passes, and requests raises when its timer expires; nothing is
\* assumed of the backend, which may never answer
LiveSpec == LiveInit /\ [][LiveNext]_vars /\ WF_vars(Tick) /\ WF_vars(BackendTimesOut)

(***************************************************************************)
(* simple_server.py, the /mark-solution branch statement by statement:     *)
(* rag_database.append(new_entry), then solution_counter += 1 and the      *)
(* response.  Between the two the record is stored and its id is still the *)
(* value of the counter.                                                   *)
(***************************************************************************)
SimpleMarkAppend(error_field, solution_field, confidence) ==
    /\ server = "simple"
    /\ ServerAccepts(pc)
    /\ Len(rag_database) < MaxRecords
    /\ request' = Request("mark-solution", TRUE, error_field, solution_field, confidence)
    /\ calls' = <<>>
    /\ response' = NoResponse
    /\ rag_database' = Append(rag_database,
                              Item(solution_counter, Get(error_field), Get(solution_field)))
    /\ pc' = "appended"
    /\ UNCHANGED <<peer, server, solution_counter, waited>>

SimpleMarkFinish ==
    /\ server = "simple"
    /\ pc = "appended"
    /\ solution_counter' = NextCounter(solution_counter)
    /\ response' = EntryResponse(rag_database[Len(rag_database)].id)
    /\ pc' = "idle"
    /\ UNCHANGED <<peer, server, rag_database, request, calls, waited>>

\* ingests in steps, with the readers of the store of both servers
ConcNext ==
    \/ \E e \in ErrorFields, s \in SolutionFields : SimpleMarkAppend(e, s, 95)
    \/ SimpleMarkFinish
    \/ \E f \in TextFields : SimpleSearchLogs(TRUE, f)
    \/ SimpleGet(RagStatsPath)
    \/ \E e \in ErrorTexts, s \in SolutionTexts : MainMarkSolution(e, s, 95)
    \/ \E t \in Texts, o \in BackendOutcomes : MainSearchLogs(t, o)
    \/ MainRagStats

ConcSpec == Init /\ [][ConcNext]_vars

(***************************************************************************)
(* The two servers side by side: every request is sent to simple_server.py *)
(* (the variables of the model) and to main.py (peer).  FastAPI validates  *)
(* the body against LogSearchRequest and MarkSolutionRequest before the    *)
(* handler runs and answers 422 when a required field is absent.           *)
(***************************************************************************)
\* the answer of FastAPI to a body that fails validation
Unprocessable == Response(422, "none", <<>>, <<>>, -1)

\* main.py's mark_solution on the store of p; with_id tells whether the body
\* carries solution_id
MainMarkStep(p, with_id, error_field, solution_field) ==
    IF ~with_id \/ ~IsStr(error_field) \/ ~IsStr(solution_field)
    THEN [p EXCEPT !.response = Unprocessable, !.rejected = TRUE]
    ELSE LET new_entry == Item(MainNewId(p.rag_database), error_field, solution_field)
         IN  [p EXCEPT !.rag_database = Append(p.rag_database, new_entry),
                       !.response = EntryResponse(new_entry.id)]

\* main.py's search_logs on the store of p
MainSearchStep(p, field, outcome) ==
    IF ~IsStr(field)
    THEN [p EXCEPT !.response = Unprocessable, !.rejected = TRUE]
    ELSE [p EXCEPT !.response = MainResolve(p.rag_database, field.val, outcome).response]

PairMarkSolution(with_id, error_field, solution_field) ==
    /\ server = "simple"
    /\ ServerAccepts(pc)
    /\ Len(rag_database) < MaxRecords
    /\ request' = Request("mark-solution", TRUE, error_field, solution_field, 95)
    /\ calls' = <<>>
    /\ LET new_entry == Item(solution_counter, Get(error_field), Get(solution_field))
       IN  /\ rag_database' = Append(rag_database, new_entry)
           /\ solution_counter' = NextCounter(solution_counter)
           /\ response' = EntryResponse(new_entry.id)
    /\ peer' = MainMarkStep(peer, with_id, error_field, solution_field)
    /\ UNCHANGED <<server, pc, waited>>

PairSearchLogs(field, outcome) ==
    /\ server = "simple"
    /\ ServerAccepts(pc)
    /\ request' = Request("search-logs", TRUE, field, Missing, 0)
    /\ LET done == SimpleResolve(rag_database, Get(field))
       IN  /\ response' = done.response
           /\ calls' = done.calls
    /\ peer' = MainSearchStep(peer, field, outcome)
    /\ UNCHANGED <<server, rag_database, solution_counter, pc, waited>>

\* the bodies sent to both servers: a text field is a string or is absent
PairErrorFields == {Missing} \cup {JStr(t) : t \in ErrorTexts}

PairTextFields == {Missing} \cup {JStr(t) : t \in Texts}

PairInit == Init /\ server = "simple"

PairNext ==
    \/ \E i \in BOOLEAN, e \in PairErrorFields, s \in SolutionFields :
           PairMarkSolution(i, e, s)
    \/ \E f \in PairTextFields, o \in DistinctOutcomes : PairSearchLogs(f, o)

PairSpec == PairInit /\ [][PairNext]_vars

(***************************************************************************)
(* Vocabulary of the claims.                                               *)
(***************************************************************************)
IsSearch == request.endpoint = "search-logs"

IsAnalyze == request.endpoint = "analyze-github"

IsMark == request.endpoint = "mark-solution"

\* the value the handler reads from the request's text field
Asked == Get(request.text)

\* the response is a retrieval: one stored record, no generated solution
AnsweredByRag ==
    response.status = 200 /\ response.source = "rag" /\ Len(response.solutions) > 0

\* the response is a generation fallback
AnsweredByClaude == response.status = 200 /\ response.source = "claude"

AllStrings(db) == \A i \in 1..Len(db) : IsStr(db[i].error) /\ IsStr(db[i].solution)

Whitespace == {" ", "\n", "\t"}

\* the whitespace-separated words of s, in lower case
Tokens(s) ==
    LET low == Lower(s)
        IsWord(i) == low[i] \notin Whitespace
        starts == {i \in 1..Len(low) : IsWord(i) /\ (i = 1 \/ ~IsWord(i - 1))}
        EndOf(i) == Min({j \in i..Len(low) : j = Len(low) \/ ~IsWord(j + 1)})
    IN  {SubSeq(low, i, EndOf(i)) : i \in starts}

\* Tokens on every searched text, evaluated once
TokenTable == [s \in SearchedTexts |-> Tokens(s)]

\* the generic words of an npm log line
BoilerplateTokens == {KwNpm, <<"e", "r", "r", "!">>}

\* two different texts whose only common words are boilerplate
SharesOnlyBoilerplate(e1, e2) ==
    LET shared == TokenTable[e1] \cap TokenTable[e2]
    IN  /\ Lower(e1) # Lower(e2)
        /\ shared # {}
        /\ shared \subseteq BoilerplateTokens

(***************************************************************************)
(* C1: for every stored record R with error text E, a search-logs query    *)
(* that is exactly E is answered by retrieval and the record returned is R *)
(* itself, also when other stored records have error texts that contain E. *)
(* Read for stores of strings and for a record whose non-empty text no     *)
(* other record repeats, where a single returned record can be R.          *)
(***************************************************************************)
C1_ExactQueryReturnsRecord ==
    (/\ IsSearch /\ request.wellformed /\ IsStr(Asked) /\ Asked.val # <<>>
     /\ AllStrings(rag_database)) =>
        \A i \in 1..Len(rag_database) :
            (/\ rag_database[i].error.val = Asked.val
             /\ \A j \in 1..Len(rag_database) :
                    j # i => rag_database[j].error.val # Asked.val)
            => (AnsweredByRag /\ response.solutions[1].id = rag_database[i].id)

(***************************************************************************)
(* C2: when E1 is the only stored record and E2 shares only boilerplate    *)
(* words with E1, a search-logs query with E2 is routed to generation      *)
(* fallback and does not return E1's record.                               *)
(***************************************************************************)
C2_BoilerplateFallsBack ==
    (/\ IsSearch /\ request.wellformed /\ IsStr(Asked)
     /\ Len(rag_database) = 1 /\ AllStrings(rag_database)
     /\ SharesOnlyBoilerplate(rag_database[1].error.val, Asked.val))
    => AnsweredByClaude

(***************************************************************************)
(* C3: with an empty store, a search-logs query with a non-empty text is   *)
(* routed to generation fallback and carries a non-empty solution list,    *)
(* whatever the generation backend does.                                   *)
(***************************************************************************)
C3_EmptyStoreNonEmptyFallback ==
    (/\ IsSearch /\ request.wellformed /\ IsStr(Asked) /\ Asked.val # <<>>
     /\ rag_database = <<>>)
    => (AnsweredByClaude /\ Len(response.solutions) > 0)

(***************************************************************************)
(* C4: a search-logs query with E that immediately follows a successful    *)
(* mark-solution of (E, S) is answered from the store with the new record. *)
(* Read for stores of strings and a non-empty E that no earlier record     *)
(* holds.                                                                  *)
(***************************************************************************)
C4_IngestVisibleToNextSearch ==
    [][(/\ IsMark /\ response.status = 200 /\ AllStrings(rag_database)
        /\ Asked.val # <<>>
        /\ \A j \in 1..(Len(rag_database) - 1) : rag_database[j].error.val # Asked.val
        /\ request'.endpoint = "search-logs" /\ request'.wellformed
        /\ Get(request'.text) = Asked)
       => (/\ response'.status = 200
           /\ response'.source = "rag"
           /\ Len(response'.solutions) = 1
           /\ response'.solutions[1].id = response.entry_id)]_vars

(***************************************************************************)
(* C5: analyze-github over N pipeline failures answers with exactly N      *)
(* per-item results in the order of the failures, also when resolving one  *)
(* item fails.                                                             *)
(***************************************************************************)
PipelinesOf(s) ==
    IF s = "main" THEN main_get_github_failed_pipelines(<<>>, <<>>)
    ELSE get_github_failed_pipelines(<<>>, <<>>)

C5_BatchReturnsEveryItem ==
    (IsAnalyze /\ request.wellformed /\ IsStr(Asked) /\ RepoInfoTable[Asked.val].ok) =>
        /\ response.status = 200
        /\ Len(response.results) = Len(PipelinesOf(server))
        /\ \A k \in 1..Len(response.results) :
               response.results[k].pipeline = PipelinesOf(server)[k]

(***************************************************************************)
(* C6: analyze-github answers every github_url that does not have the      *)
(* host/owner/repo shape with 400, without a pipeline lookup, a store      *)
(* search or a generation call, and requests are still served afterwards.  *)
(***************************************************************************)
\* three consecutive non-empty segments separated by single slashes
HasRepoShape(url) ==
    \E i, j \in 1..Len(url) :
        /\ i > 1 /\ i + 1 < j /\ j < Len(url)
        /\ url[i] = Slash /\ url[j] = Slash
        /\ url[i - 1] # Slash /\ url[j + 1] # Slash
        /\ \A k \in (i + 1)..(j - 1) : url[k] # Slash

C6_MalformedUrlRejected ==
    (IsAnalyze /\ request.wellformed /\ ~(IsStr(Asked) /\ HasRepoShape(Asked.val))) =>
        /\ response = BadRequest
        /\ calls = <<>>
        /\ ENABLED Next

C6_Witness ==
    /\ IsAnalyze /\ request.wellformed
    /\ Asked = JStr(UrlNotAUrl)
    /\ response.status = 400
    /\ calls = <<>>

(***************************************************************************)
(* C7: mark-solution with a confidence outside [0,1] is rejected with a    *)
(* client error and leaves the store unchanged: no record is appended and  *)
(* no id is consumed.                                                      *)
(***************************************************************************)
C7_OutOfRangeConfidenceRejected ==
    [][(/\ request'.endpoint = "mark-solution" /\ request'.wellformed
        /\ request'.confidence \notin 0..100)
       => (response'.status = 400 /\ UNCHANGED <<rag_database, solution_counter>>)]_vars

(***************************************************************************)
(* C8: mark-solution with an empty or missing error_text or solution_text  *)
(* is rejected, and no stored record has an empty error_text or            *)
(* solution_text.                                                          *)
(***************************************************************************)
EmptyOrMissing(field) == Get(field) = JStr(<<>>)

C8_EmptyTextRejected ==
    /\ (/\ IsMark /\ request.wellformed
        /\ (EmptyOrMissing(request.text) \/ EmptyOrMissing(request.solution)))
       => response.status = 400
    /\ \A i \in 1..Len(rag_database) :
           /\ rag_database[i].error # JStr(<<>>)
           /\ rag_database[i].solution # JStr(<<>>)

(***************************************************************************)
(* C9: every successful mark-solution makes the store one record longer,   *)
(* and the new record's id differs from the id of every record already     *)
(* stored, also when an equal (error_text, solution_text) pair is stored:  *)
(* ingesting the same pair twice gives two records with different ids.     *)
(***************************************************************************)
C9_IngestAppendsFreshRecord ==
    [][(request'.endpoint = "mark-solution" /\ response'.status = 200) =>
          LET n == Len(rag_database)
          IN  /\ Len(rag_database') = n + 1
              /\ rag_database'[n + 1].error = Get(request'.text)
              /\ rag_database'[n + 1].solution = Get(request'.solution)
              /\ rag_database'[n + 1].id = response'.entry_id
              /\ \A i \in 1..n : rag_database'[i].id # rag_database'[n + 1].id]_vars

C9_Witness ==
    /\ IsMark /\ response.status = 200
    /\ Len(rag_database) = 2
    /\ rag_database[1].error = rag_database[2].error
    /\ rag_database[1].solution = rag_database[2].solution
    /\ rag_database[1].id # rag_database[2].id
    /\ rag_database[1].error.val # <<>>

(***************************************************************************)
(* C10: a request body that is malformed JSON or lacks a required field    *)
(* (log_content, github_url, error_text, solution_text) is answered with   *)
(* 400, changes no record and is not answered with solutions.              *)
(***************************************************************************)
LacksRequired(r) ==
    \/ ~r.wellformed
    \/ r.text.type = "missing"
    \/ (r.endpoint = "mark-solution" /\ r.solution.type = "missing")

C10_BadBodyRejected ==
    [][LacksRequired(request') =>
          /\ response'.status = 400
          /\ response'.solutions = <<>>
          /\ UNCHANGED <<rag_database, solution_counter>>]_vars

(***************************************************************************)
(* C11: upload-logs accepts only files whose name ends in .log or .txt.    *)
(* An upload with any other name is answered with a client error and       *)
(* neither the store nor the generation backend is called for it; an       *)
(* accepted upload of decodable text is answered, with the same calls, as  *)
(* a search-logs query on the file's content is answered by the same       *)
(* server on the same store.                                               *)
(***************************************************************************)
IsUpload == request.endpoint = "upload-logs"

HasLogExtension(filename) == EndsWith(filename, DotLog) \/ EndsWith(filename, DotTxt)

ClientError == 400..499

\* the answers search-logs can give for this text on the running server
SearchLogsAnswers(text) ==
    IF server = "simple" THEN {SimpleResolve(rag_database, JStr(text))}
    ELSE {MainResolve(rag_database, text, o) : o \in BackendOutcomes}

C11_UploadFilteredAndResolved ==
    IsUpload =>
        IF ~HasLogExtension(request.filename)
        THEN response.status \in ClientError /\ calls = <<>>
        ELSE IsStr(request.text) =>
                 [response |-> response, calls |-> calls] \in SearchLogsAnswers(request.text.val)

(***************************************************************************)
(* C12: when the generation backend cannot be reached, times out, answers  *)
(* with a status other than 200 or with text that holds no parseable JSON  *)
(* array, the search-logs request that called it is still answered 200     *)
(* with a non-empty list of solutions labelled as generated: the failure   *)
(* of the collaborator is never the caller's error.                        *)
(***************************************************************************)
\* the backend outcomes that are failures of the collaborator
FailingOutcomes == {o \in BackendOutcomes : o.kind # "array"}

C12_BackendFailureDegrades ==
    [][(/\ server = "main" /\ request'.endpoint = "search-logs"
        /\ calls' = <<"search", "generate">>
        /\ \E o \in FailingOutcomes : MainSearchLogs(request'.text.val, o)) =>
           /\ response'.status = 200
           /\ response'.source = "claude"
           /\ Len(response'.solutions) > 0]_vars

\* a search-logs request of main.py answered with the built-in solution
C12_Witness ==
    /\ server = "main" /\ IsSearch
    /\ calls = <<"search", "generate">>
    /\ response = SolutionsResponse(FallbackSolutions, "claude")

(***************************************************************************)
(* C13: in every reachable state the ids of the stored records are         *)
(* pairwise distinct and grow with the order of ingestion: a record stored *)
(* later has a strictly larger id than every record stored before it,      *)
(* whatever requests were answered between the ingests.                    *)
(***************************************************************************)
C13_IdsDistinctAndIncreasing ==
    \A i \in 1..Len(rag_database), j \in 1..Len(rag_database) :
        i < j => rag_database[i].id < rag_database[j].id

\* two records are stored and a request that is not an ingest has come after them
C13_Witness ==
    /\ Len(rag_database) >= 2
    /\ rag_database[1].id < rag_database[2].id
    /\ ~IsMark /\ request.endpoint # "none"

(***************************************************************************)
(* C14: the record store is an append-only log.  Every step leaves the     *)
(* records already stored where they are, with the same id, error text and *)
(* solution text: the store before the step is a prefix of the store after *)
(* it, so no operation deletes, reorders or edits a record.                *)
(***************************************************************************)
C14_StoreIsAppendOnly ==
    [][/\ Len(rag_database') >= Len(rag_database)
       /\ SubSeq(rag_database', 1, Len(rag_database)) = rag_database]_vars

\* a second ingest of an error text that is already stored has been answered:
\* both records are there, the earlier one as it was stored
C14_Witness ==
    /\ IsMark /\ response.status = 200
    /\ Len(rag_database) >= 2
    /\ rag_database[1].error = rag_database[2].error
    /\ rag_database[1].solution # rag_database[2].solution

(***************************************************************************)
(* C15: routing is exclusive and retrieval-first.  For every resolve (a    *)
(* search-logs query, an accepted upload, one item of an analyze-github    *)
(* batch) the store is searched first, the generation is called exactly    *)
(* when no stored record matches the text, an answer labelled "claude"     *)
(* carries no stored record and an answer labelled "rag" carries nothing   *)
(* but stored records.  Read for string texts on stores of strings.        *)
(***************************************************************************)
\* some stored record matches the text
Qualifies(text) ==
    \E i \in 1..Len(rag_database) : MatchTable[text][rag_database[i].error.val]

StoredSolutions == {RagSolution(rag_database[i]) : i \in 1..Len(rag_database)}

\* the label of an answer agrees with what it carries
Exclusive(solutions, source) ==
    /\ source \in {"rag", "claude"}
    /\ source = "rag" =>
           Len(solutions) > 0 /\ \A k \in 1..Len(solutions) : solutions[k] \in StoredSolutions
    /\ source = "claude" => \A k \in 1..Len(solutions) : solutions[k] \notin StoredSolutions

\* the calls of one resolve that is routed as its label says
CallsOf(source) == IF source = "rag" THEN <<"search">> ELSE <<"search", "generate">>

RECURSIVE CallsOfItems(_, _)
CallsOfItems(results, k) ==
    IF k > Len(results) THEN <<>>
    ELSE CallsOf(results[k].source) \o CallsOfItems(results, k + 1)

Similarity(a, b) ==
    LET all == TokenTable[a] \cup TokenTable[b]
    IN  IF all = {} THEN 100
        ELSE (100 * Cardinality(TokenTable[a] \cap TokenTable[b])) \div Cardinality(all)

\* the positions of the stored records that match the text
Qualifying(text) ==
    {i \in 1..Len(rag_database) : MatchTable[text][rag_database[i].error.val]}

\* position i is the best of the matching records: no matching record is
\* more similar, and none that is equally similar has a lower id
IsBest(text, i) ==
    \A j \in Qualifying(text) :
        LET si == Similarity(text, rag_database[i].error.val)
            sj == Similarity(text, rag_database[j].error.val)
        IN  sj < si \/ (sj = si /\ rag_database[i].id <= rag_database[j].id)

NonEmptyErrors(db) == \A i \in 1..Len(db) : db[i].error.val # <<>>

SharesNoVocabulary(text) ==
    \A i \in 1..Len(rag_database) :
        TokenTable[text] \cap TokenTable[rag_database[i].error.val] = {}

ReadEndpoints ==
    {"search-logs", "upload-logs", "analyze-github", "health", "rag-stats", "root", "unknown"}

C18_ResolutionWritesNothing ==
    [][/\ request'.endpoint \in ReadEndpoints =>
              UNCHANGED <<rag_database, solution_counter>>
       /\ ~(UNCHANGED <<rag_database, solution_counter>>) =>
              request'.endpoint = "mark-solution"]_vars

\* a batch has been resolved against a store that holds a record, and the
\* store and the counter are what the ingests left
C18_Witness ==
    /\ IsAnalyze /\ response.status = 200
    /\ Len(rag_database) >= 1
    /\ server = "simple" => solution_counter = Len(rag_database)
    /\ \E k \in 1..Len(response.results) : response.results[k].source = "claude"

(***************************************************************************)
(* C19: every resolve request eventually receives a response.  A           *)
(* search-logs request whose text no record matches waits for the          *)
(* generation backend; whether the backend answers or stays silent for     *)
(* ever, the request is answered 200 with a non-empty list of solutions,   *)
(* because the call gives up after Timeout seconds and the built-in        *)
(* solution is returned.                                                   *)
(***************************************************************************)
Waiting == pc = "waiting" /\ response = NoResponse

Answered ==
    /\ pc = "idle" /\ IsSearch
    /\ response.status = 200 /\ response.source = "claude"

C19_ResolveEventuallyAnswered == Waiting ~> Answered

\* the backend stayed silent until the timeout and the request was answered
\* with the built-in solution
C19_Witness ==
    /\ Answered
    /\ calls = <<"search", "generate">>
    /\ waited = Timeout
    /\ response.solutions = FallbackSolutions

(***************************************************************************)
(* C20: an ingest in progress appears atomic to readers.  Whenever a       *)
(* search-logs or rag-stats request is answered, the store it reads holds  *)
(* only whole records whose ids are already consumed: the id the next      *)
(* ingest will take is the id of no stored record.  No reader sees the     *)
(* record appended while the counter still holds its id.                   *)
(***************************************************************************)
\* the id the next ingest takes
NextFreeId == IF server = "simple" THEN solution_counter ELSE MainNewId(rag_database)

\* the step answers a reader of the store
ReaderStep == request'.endpoint \in {"search-logs", "rag-stats"} /\ pc' = pc

\* the store as a reader finds it
StoreIsWhole ==
    /\ \A i \in 1..Len(rag_database) : rag_database[i].id # NextFreeId
    /\ server = "simple" => solution_counter = Len(rag_database)

C20_IngestAtomicToReaders == [][ReaderStep => StoreIsWhole]_vars

\* rag-stats of simple_server.py answered after two ingests
C20_Witness ==
    /\ server = "simple"
    /\ request.endpoint = "rag-stats"
    /\ response.total_solutions = 2
    /\ solution_counter = 2
    /\ pc = "idle"

(***************************************************************************)
(* C21: retrieval matching is one-directional case-insensitive             *)
(* containment.  A query is answered from the store exactly when its       *)
(* lower-cased text is a contiguous part of the lower-cased error text of  *)
(* some stored record, and then with the first such record in insertion    *)
(* order; the same holds of every item of an analyze-github batch.  A      *)
(* query that strictly extends a stored error text is never answered with  *)
(* that record: it is answered from the store only when another record     *)
(* contains it.  Read for string queries on stores of strings.             *)
(***************************************************************************)
\* lower(query) is a contiguous part of lower(error), for every searched and
\* every stored text, evaluated once
ContainedIn ==
    [query \in SearchedTexts |->
        [error \in ErrorTexts |-> Contains(Lower(query), Lower(error))]]

\* the positions of the stored records whose text contains the text
Containing(text) ==
    {i \in 1..Len(rag_database) : ContainedIn[text][rag_database[i].error.val]}

\* the query is the stored text followed by further characters
StrictlyExtends(query, error) ==
    Len(query) > Len(error) /\ SubSeq(query, 1, Len(error)) = error

\* the stored records the text strictly extends
Extended(text) ==
    {i \in 1..Len(rag_database) : StrictlyExtends(text, rag_database[i].error.val)}

\* an answer with its label is what containment gives for the text
ByContainment(text, solutions, source) ==
    IF Containing(text) = {}
    THEN source = "claude"
    ELSE /\ source = "rag"
         /\ solutions = <<RagSolution(rag_database[Min(Containing(text))])>>

\* no record the text strictly extends is the record of the answer
NotByExtended(text, solutions, source) ==
    source = "rag" =>
        \A i \in Extended(text) : solutions[1].id # rag_database[i].id

SearchOfStrings ==
    /\ IsSearch /\ request.wellformed /\ IsStr(Asked)
    /\ AllStrings(rag_database) /\ response.status = 200

BatchOfStrings == IsAnalyze /\ AllStrings(rag_database) /\ response.status = 200

IdsArePositions(db) == \A i \in 1..Len(db) : db[i].id = i - 1

\* the two answers to the request just sent say the same about the store
SameAnswer ==
    /\ IsMark => peer.response.entry_id = response.entry_id
    /\ IsSearch =>
           /\ peer.response.source = response.source
           /\ response.source = "rag" => peer.response.solutions = response.solutions

Agree ==
    /\ IdsArePositions(rag_database)
    /\ IdsArePositions(peer.rag_database)
    /\ SameAnswer

C22_ServersAgreeOnAcceptedRequests == ~peer.rejected => Agree

\* the claim as it is worded: for every sequence of requests
C22_ServersAgree == Agree

\* after two ingests accepted by both, a search answered by both from the
\* store with one record
C22_Witness ==
    /\ ~peer.rejected
    /\ Len(rag_database) = 2 /\ peer.rag_database = rag_database
    /\ IsSearch /\ response.source = "rag"
    /\ peer.response.solutions = response.solutions
    /\ response.solutions[1].id = 1

=============================================================================
